---- MODULE Spec2Model ----
(***************************************************************************)
(* Event queue, delivery engine, privacy gate and visitor/session identity *)
(* of src/cc-site-client.js.  The file holds three copies of the script   *)
(* (lines 24-492, 541-1152, 1212-1569) with the same core; state, inflight *)
(* and delivered are those of the first copy, peers those of the other two.*)
(*                                                                         *)
(* The script is loaded (Init, LoadPage), then handlers run one at a time  *)
(* (JavaScript is single threaded, each handler runs to completion); the   *)
(* only suspension point of the core is the fallback fetch of flush, whose *)
(* settlement is a later step.  Spec follows one page and the handlers of  *)
(* the first copy; SpecDelivery, SpecGate, SpecIdentity, SpecTrail,        *)
(* SpecContext, SpecSignal, SpecPage, SpecSession, SpecSpa, SpecSpaIdle    *)
(* and SpecVisibility look at one part each.                               *)
(***************************************************************************)
EXTENDS Integers, Sequences, FiniteSets, TLC

\* ------------------------------------------------------------------ bounds
\* Enqueue calls that pass the gate in one behaviour.
MaxEnq == 4
\* Last value of the clock (Date.now(), in model ticks).
MaxTime == 2
\* cfg.maxBatch (data-max-batch) of the modelled configuration.
maxBatch == 3
\* cfg.sessionTimeoutMs (data-session-timeout-ms) of the modelled configuration.
sessionTimeoutMs == 1
\* Collaborators stop asking for identity once this many ids were generated.
MaxIds == 3
\* Scheduled flushes (setTimeout(flush, 250)) pending at one time.
MaxTimers == 2

\* ------------------------------------------------------------------ inputs
\* Values of navigator.doNotTrack / navigator.msDoNotTrack / window.doNotTrack.
DntValues == {"1", "unspecified"}
\* cfg.siteId and cfg.endpoint after resolution: empty or some non-empty string.
SiteIds == {"", "site-1"}
Endpoints == {"", "https://cc/ingest"}
\* Event types and payloads handed to enqueue by the producers.
Types == {"pageview"}
Payloads == {"{}"}
\* document.referrer of a page load ("" when there is none).
Referrers == {"", "r1", "r2", "r3", "r4", "r5", "r6"}
\* What one navigator.sendBeacon attempt does.
BeaconOutcomes == {"accepted", "rejected", "throws", "missing"}
\* What a page script hands to a public track entry point: an event type
\* (possibly empty) and a payload that is an object, a string or missing.
TypeInputs == {"", "signup"}
PayloadInputs == {"{k:1}", "'text'", "undefined"}
ObjectPayloads == {"{}", "{k:1}"}
\* What reading the page context does inside baseEvent: all reads succeed, or
\* one throws (Intl.DateTimeFormat().resolvedOptions() where Intl is missing
\* or rejects the environment's locale data).
ContextOutcomes == {"ok", "throws"}
\* Sources of a direct flush() call: setInterval(flush, 5000), the 'online' and
\* 'beforeunload' listeners, the 'visibilitychange' listener when the page is
\* hidden, and the setTimeout(flush, 250) of scheduleFlush (a timeout scheduled
\* by an SPA navigation may be due at any time).
Triggers == {"interval", "online", "beforeunload", "hidden", "timeout"}
\* What the platform does to a flush that has passed its guard: nothing
\* unusual; JSON.stringify or new Blob throws (a payload that cannot be
\* serialised, no Blob); fetch is missing or throws synchronously.
FlushFaults == {"none", "serialise", "fetch"}
\* document.visibilityState
VisibilityStates == {"visible", "hidden"}
\* The three ways a route change reaches onChange.
RouteChanges == {"pushState", "replaceState", "popstate"}

VARIABLES
  D,          \* document: [visibilityState]
  timers,     \* pending setTimeout(flush, 250) calls of the first copy, oldest
              \* first; each entry: serial of the pageview queued by the
              \* route change that scheduled it (0: the gate refused it)
  N,          \* navigator: [doNotTrack, msDoNotTrack]
  W,          \* window: [doNotTrack]
  cfg,        \* [siteId, endpoint, consentRequired]
  dnt,        \* the constant computed when the script is loaded
  lsOk,       \* FALSE: every localStorage access throws
  storage,    \* localStorage: key -> serialised value (absent keys not in DOMAIN)
  clock,      \* Date.now()
  ids,        \* number of uuid() results handed out so far
  state,      \* [queue, flushing]
  inflight,   \* batches of fallback POSTs that have not settled yet
  delivered,  \* history: records handed over successfully, in order
  enqCount,   \* history: enqueue calls that passed the gate
  everFlushed,\* history: some flush has passed its guard and taken a batch
  lastOp,     \* history: the last handler that ran, with what it returned
  peers       \* the delivery state of the second and third copy of the script

vars == <<D, timers, N, W, cfg, dnt, lsOk, storage, clock, ids, state, inflight,
          delivered, enqCount, everFlushed, lastOp, peers>>

\* ------------------------------------------------------------------ small utils
\* JSON.stringify / JSON.parse on the values the script stores (strings,
\* booleans, flat objects): the text is kept as a tagged value.
JSONstringify(v) == <<"json", v>>
JSONparse(s) == s[2]

\* uuid(): 122 random bits; every call is taken to give a value not seen before.
uuid(n) == n + 1

VID_KEY == "cc_vid"
SID_KEY == "cc_sid"
CONSENT_KEY == "cc_consent_granted"
REF_KEY == "cc_ref"
\* The length the referrer trail is cut to: if (refTrail.length>5) refTrail.shift()
TrailCap == 5

\* ls.get(k, def): def when the key is absent or the access throws.
lsHas(st, k) == lsOk /\ k \in DOMAIN st
lsGet(st, k) == JSONparse(st[k])
\* ls.set(k, v): silently nothing when the access throws.
lsSet(st, k, v) ==
  IF lsOk
    THEN [x \in (DOMAIN st) \cup {k} |-> IF x = k THEN JSONstringify(v) ELSE st[x]]
    ELSE st


\* ------------------------------------------------------------------ privacy gates
\* const dnt = (N.doNotTrack == '1' || N.msDoNotTrack == '1' || W.doNotTrack == '1')
dntSignal(nav, win) ==
  nav.doNotTrack = "1" \/ nav.msDoNotTrack = "1" \/ win.doNotTrack = "1"

\* !!ls.get('cc_consent_granted', false)
consentStored ==
  lsHas(storage, CONSENT_KEY) /\ lsGet(storage, CONSENT_KEY) = TRUE

\* Mutants of hasConsent: the consentRequired flag is ignored; the stored
\* consent is ignored.
hasConsent_flagIgnored == consentStored
hasConsent_storeIgnored == ~cfg.consentRequired

hasConsent == ~cfg.consentRequired \/ consentStored

\* Mutant of readyToTrack: the consent gate is left out.
readyToTrack_noConsent == ~dnt /\ cfg.siteId # "" /\ cfg.endpoint # ""

readyToTrack ==
  ~dnt /\ hasConsent /\ cfg.siteId # "" /\ cfg.endpoint # ""

\* ------------------------------------------------------------------ identity
\* Mutant of sessionExpired: >= for >.
sessionExpired_atTimeout(s, nowTs) == nowTs - s.last >= sessionTimeoutMs

\* The expiry test of getSessionId: nowTs - (s.last || 0) > cfg.sessionTimeoutMs
sessionExpired(s, nowTs) == nowTs - s.last > sessionTimeoutMs

\* Mutant of getSessionId: without a usable store no session is made up.
getSessionId_noneWithoutStore(st, nowTs, n) ==
  LET has == lsHas(st, SID_KEY)
      fresh == ~has \/ lsGet(st, SID_KEY).id = 0
                    \/ sessionExpired(lsGet(st, SID_KEY), nowTs)
      s == IF fresh
             THEN [id |-> uuid(n), started |-> nowTs, last |-> nowTs]
             ELSE [lsGet(st, SID_KEY) EXCEPT !.last = nowTs]
  IN IF lsOk
       THEN [id |-> s.id, storage |-> lsSet(st, SID_KEY, s),
             ids |-> IF fresh THEN n + 1 ELSE n]
       ELSE [id |-> 0, storage |-> st, ids |-> n]

\* Mutant of getSessionId: a session that is kept is restarted as well.
getSessionId_restartsOnUse(st, nowTs, n) ==
  LET has == lsHas(st, SID_KEY)
      fresh == ~has \/ lsGet(st, SID_KEY).id = 0
                    \/ sessionExpired(lsGet(st, SID_KEY), nowTs)
      s == IF fresh
             THEN [id |-> uuid(n), started |-> nowTs, last |-> nowTs]
             ELSE [lsGet(st, SID_KEY) EXCEPT !.last = nowTs, !.started = nowTs]
  IN [id |-> s.id, storage |-> lsSet(st, SID_KEY, s),
      ids |-> IF fresh THEN n + 1 ELSE n]

\* Mutant of getSessionId: only a new session is written to the store.
getSessionId_persistOnlyNew(st, nowTs, n) ==
  LET has == lsHas(st, SID_KEY)
      fresh == ~has \/ lsGet(st, SID_KEY).id = 0
                    \/ sessionExpired(lsGet(st, SID_KEY), nowTs)
      s == IF fresh
             THEN [id |-> uuid(n), started |-> nowTs, last |-> nowTs]
             ELSE [lsGet(st, SID_KEY) EXCEPT !.last = nowTs]
  IN [id |-> s.id, storage |-> IF fresh THEN lsSet(st, SID_KEY, s) ELSE st,
      ids |-> IF fresh THEN n + 1 ELSE n]

\* getSessionId() on storage st at time nowTs with n ids handed out:
\* the returned id, the storage and the id count afterwards.
getSessionId(st, nowTs, n) ==
  LET has == lsHas(st, SID_KEY)
      fresh == ~has \/ lsGet(st, SID_KEY).id = 0
                    \/ sessionExpired(lsGet(st, SID_KEY), nowTs)
      s == IF fresh
             THEN [id |-> uuid(n), started |-> nowTs, last |-> nowTs]
             ELSE [lsGet(st, SID_KEY) EXCEPT !.last = nowTs]
  IN [id |-> s.id, storage |-> lsSet(st, SID_KEY, s),
      ids |-> IF fresh THEN n + 1 ELSE n]

\* Mutant of getVisitorId: the stored id is not looked at.
getVisitorId_alwaysNew(st, n) ==
  [id |-> uuid(n), storage |-> lsSet(st, VID_KEY, uuid(n)), ids |-> n + 1]

\* getVisitorId(): the stored id, or a new one that is then stored.
getVisitorId(st, n) ==
  IF lsHas(st, VID_KEY) /\ lsGet(st, VID_KEY) # 0
    THEN [id |-> lsGet(st, VID_KEY), storage |-> st, ids |-> n]
    ELSE [id |-> uuid(n), storage |-> lsSet(st, VID_KEY, uuid(n)), ids |-> n + 1]

\* Mutant of touchSession: the touch also restarts the session.
touchSession_restarts(st, nowTs) ==
  IF lsHas(st, SID_KEY)
    THEN lsSet(st, SID_KEY,
               [lsGet(st, SID_KEY) EXCEPT !.last = nowTs, !.started = nowTs])
    ELSE st

\* touchSession(): s.last = now() when a session is stored.
touchSession(st, nowTs) ==
  IF lsHas(st, SID_KEY)
    THEN lsSet(st, SID_KEY, [lsGet(st, SID_KEY) EXCEPT !.last = nowTs])
    ELSE st

\* ------------------------------------------------------------------ referrer trail
\* Mutant of pushReferrer: the trail is never cut.
pushReferrer_noCap(trail, ref) ==
  IF ref # "" /\ (Len(trail) = 0 \/ trail[Len(trail)] # ref)
    THEN Append(trail, ref)
    ELSE trail

\* Lines 147-148 on the in-memory trail: push a referrer that differs from the
\* last entry, then shift once when the trail is longer than 5.
pushReferrer(trail, ref) ==
  IF ref # "" /\ (Len(trail) = 0 \/ trail[Len(trail)] # ref)
    THEN LET t == Append(trail, ref)
         IN IF Len(t) > TrailCap THEN Tail(t) ELSE t
    ELSE trail

\* Lines 146-149 on the store: the trail is read (default []), and written
\* back only when a referrer was pushed.
recordReferrer(st, ref) ==
  LET refTrail == IF lsHas(st, REF_KEY) THEN lsGet(st, REF_KEY) ELSE <<>>
  IN IF pushReferrer(refTrail, ref) # refTrail
       THEN lsSet(st, REF_KEY, pushReferrer(refTrail, ref))
       ELSE st

\* ------------------------------------------------------------------ event queue
\* Mutants of push and unshift: the record goes to the front; the failed batch
\* goes to the back.
push_front(q, e) == <<e>> \o q
unshift_back(q, batch) == q \o batch

\* Mutant of unshift: the queue is cut to maxBatch records after the requeue.
unshift_capped(q, batch) ==
  SubSeq(batch \o q, 1, IF Len(batch \o q) > maxBatch THEN maxBatch
                                                       ELSE Len(batch \o q))

\* Mutant of splice: splice(0, cfg.maxBatch), at most maxBatch records taken.
splice_maxBatch(q) ==
  IF Len(q) > maxBatch
    THEN [removed |-> SubSeq(q, 1, maxBatch),
          rest |-> SubSeq(q, maxBatch + 1, Len(q))]
    ELSE [removed |-> q, rest |-> <<>>]

\* Mutant of splice: the newest record is left in the queue.
splice_keepLast(q) ==
  IF Len(q) = 0
    THEN [removed |-> <<>>, rest |-> <<>>]
    ELSE [removed |-> SubSeq(q, 1, Len(q) - 1), rest |-> <<q[Len(q)]>>]

\* Array.prototype.push / unshift(...batch) / splice(0, length) on the queue.
push(q, e) == Append(q, e)
unshift(q, batch) == batch \o q
splice(q) == [removed |-> q, rest |-> <<>>]

\* Mutant of batchFull: > for >=.
batchFull_over(q) == Len(q) > maxBatch

\* if (state.queue.length >= cfg.maxBatch) flush()
batchFull(q) == Len(q) >= maxBatch

\* Mutant of buildEvent: the record carries the id that was stored before the
\* expiry rule was applied.
buildEvent_staleSid(st, nowTs, n, type, payload, serial) ==
  LET sres == getSessionId(st, nowTs, n)
      vres == getVisitorId(sres.storage, sres.ids)
      old == IF lsHas(st, SID_KEY) THEN lsGet(st, SID_KEY).id ELSE sres.id
  IN [rec |-> [n |-> serial, t |-> type, sid |-> old,
               vid |-> vres.id, site |-> cfg.siteId, payload |-> payload],
      storage |-> vres.storage, ids |-> vres.ids]

\* baseEvent(type, payload): sid, then vid (object literal order); of the page
\* context only the site id is kept.
\* serial is the number of the enqueue call that builds the record; st and n
\* are the store and the id count the call finds.
buildEvent(st, nowTs, n, type, payload, serial) ==
  LET sres == getSessionId(st, nowTs, n)
      vres == getVisitorId(sres.storage, sres.ids)
  IN [rec |-> [n |-> serial, t |-> type, sid |-> sres.id,
               vid |-> vres.id, site |-> cfg.siteId, payload |-> payload],
      storage |-> vres.storage, ids |-> vres.ids]

baseEvent(type, payload, serial) ==
  buildEvent(storage, clock, ids, type, payload, serial)

\* The page-wide delivery state flush works on.
Machine == [state |-> state, inflight |-> inflight, delivered |-> delivered]

\* Mutant of beaconOk: the value sendBeacon returns is not looked at.
beaconOk_anyReturn(beacon) == beacon \in {"accepted", "rejected"}

\* ok = !!(N.sendBeacon && N.sendBeacon(cfg.endpoint, blob)), exceptions caught
beaconOk(beacon) == beacon = "accepted"

\* Mutant of flushSkips: the gate is not asked again at flush time.
flushSkips_noGate(m) == m.state.flushing \/ Len(m.state.queue) = 0

\* The guard of flush: the early return is taken.
flushSkips(m) ==
  ~readyToTrack \/ m.state.flushing \/ Len(m.state.queue) = 0

\* Mutant of flush: the flag is raised only after the fallback fetch was issued
\* and the handler has yielded, so the guard of a later flush still passes.
flush_flagLate(m, beacon) ==
  IF flushSkips(m)
    THEN [m |-> m, how |-> "skipped"]
    ELSE LET sp == splice(m.state.queue)
             taken == [m EXCEPT !.state = [queue |-> sp.rest, flushing |-> FALSE]]
         IN IF beaconOk(beacon)
              THEN [m |-> [taken EXCEPT !.delivered = @ \o sp.removed],
                    how |-> "beacon"]
              ELSE [m |-> [taken EXCEPT !.inflight = Append(@, sp.removed)],
                    how |-> "post"]

\* flush() on machine m; beacon is what sendBeacon does if it is tried.
\* how: "skipped" (guard), "beacon" (accepted) or "post" (fallback fetch issued).
flush(m, beacon) ==
  IF flushSkips(m)
    THEN [m |-> m, how |-> "skipped"]
    ELSE LET sp == splice(m.state.queue)
             taken == [m EXCEPT !.state = [queue |-> sp.rest, flushing |-> TRUE]]
         IN IF beaconOk(beacon)
              THEN [m |-> [taken EXCEPT !.state.flushing = FALSE,
                                         !.delivered = @ \o sp.removed],
                    how |-> "beacon"]
              ELSE [m |-> [taken EXCEPT !.inflight = Append(@, sp.removed)],
                    how |-> "post"]

\* flush() where the platform may fail it: lines 174-175 have run (flag set,
\* batch spliced into a local) when JSON.stringify / new Blob (175-176) or
\* fetch (183) throws; flush has no try block around them, so the exception
\* leaves flush with the flag set and the batch held by nothing.
\* how "threw": the exception left flush.
flushIn(m, beacon, fault) ==
  IF flushSkips(m)
    THEN [m |-> m, how |-> "skipped"]
    ELSE LET sp == splice(m.state.queue)
             taken == [m EXCEPT !.state = [queue |-> sp.rest, flushing |-> TRUE]]
         IN IF fault = "serialise" \/ (fault = "fetch" /\ ~beaconOk(beacon))
              THEN [m |-> taken, how |-> "threw"]
              ELSE flush(m, beacon)

\* sendBeacon is consulted only by a flush that passes its guard.
\* (q is the queue the flush would find; a flush inside enqueue runs only on
\* a full queue.)
BeaconTried(q) ==
  IF flushSkips([Machine EXCEPT !.state.queue = q])
    THEN {"missing"} ELSE BeaconOutcomes

Op(op, how, ret, prev, gap) ==
  [op |-> op, how |-> how, ret |-> ret, prev |-> prev, gap |-> gap]

SetMachine(m) ==
  /\ state' = m.state
  /\ inflight' = m.inflight
  /\ delivered' = m.delivered

\* ------------------------------------------------------------------ actions
\* enqueue(type, payload), with the size-triggered flush it may run.
Enqueue(type, payload, beacon) ==
  IF ~readyToTrack
    THEN /\ lastOp' = Op("enqueue", "denied", 0, 0, 0)
         /\ UNCHANGED <<D, timers, peers, N, W, cfg, dnt, lsOk, storage, clock, ids, state,
                        inflight, delivered, enqCount, everFlushed>>
    ELSE /\ enqCount < MaxEnq
         /\ LET ev == baseEvent(type, payload, enqCount + 1)
                m1 == [Machine EXCEPT !.state.queue = push(@, ev.rec)]
                fl == IF batchFull(m1.state.queue)
                        THEN flush(m1, beacon)
                        ELSE [m |-> m1, how |-> "queued"]
            IN /\ SetMachine(fl.m)
               /\ storage' = ev.storage
               /\ ids' = ev.ids
               /\ enqCount' = enqCount + 1
               /\ everFlushed' = (everFlushed \/ fl.how \in {"beacon", "post"})
               /\ lastOp' = Op("enqueue", fl.how, enqCount + 1, 0, 0)
         /\ UNCHANGED <<D, timers, peers, N, W, cfg, dnt, lsOk, clock>>

\* enqueue(type, payload) where the page context may fail to be read.
\* baseEvent evaluates its object literal in order: sid and vid are computed
\* (and stored) before tz; an exception there leaves baseEvent and enqueue,
\* neither of which has a try block, so push is not reached.
EnqueueInContext(type, payload, beacon, ctx) ==
  IF ctx = "ok" \/ ~readyToTrack
    THEN Enqueue(type, payload, beacon)
    ELSE LET ev == baseEvent(type, payload, enqCount + 1)
         IN /\ ids < MaxIds
            /\ storage' = ev.storage
            /\ ids' = ev.ids
            /\ lastOp' = Op("enqueue", "threw", 0, 0, 0)
            /\ UNCHANGED <<D, timers, peers, N, W, cfg, dnt, lsOk, clock, state, inflight,
                           delivered, enqCount, everFlushed>>

\* enqueue as a function: the call on the copy whose delivery state is m, in
\* the world w = [storage, ids, cnt] (cnt: records built on the page so far).
enqueue(m, w, type, payload, beacon) ==
  IF ~readyToTrack
    THEN [m |-> m, w |-> w, how |-> "denied"]
    ELSE LET ev == buildEvent(w.storage, clock, w.ids, type, payload, w.cnt + 1)
             m1 == [m EXCEPT !.state.queue = push(@, ev.rec)]
             fl == IF batchFull(m1.state.queue)
                     THEN flush(m1, beacon)
                     ELSE [m |-> m1, how |-> "queued"]
         IN [m |-> fl.m,
             w |-> [storage |-> ev.storage, ids |-> ev.ids, cnt |-> w.cnt + 1],
             how |-> fl.how]

\* The steps of init() on one copy, each from the result r = [m, w] of the
\* step before it.
\* perf(): 'perf' is enqueued when the platform has a navigation timing entry.
perf(r, nav, beacon) ==
  IF nav THEN enqueue(r.m, r.w, "perf", "{k:1}", beacon) ELSE r
\* trackPageview({ spa:false })
trackPageview(r, beacon) == enqueue(r.m, r.w, "pageview", "{k:1}", beacon)
\* pollActiveMessages() up to its fetch, in a copy that polls: vid, then sid,
\* with no gate.
pollActiveMessages(r, polls) ==
  LET vres == getVisitorId(r.w.storage, r.w.ids)
      sres == getSessionId(vres.storage, clock, vres.ids)
  IN IF polls
       THEN [r EXCEPT !.w.storage = sres.storage, !.w.ids = sres.ids]
       ELSE r

\* String(type || 'custom')
typeName(type) == IF type = "" THEN "custom" ELSE type

\* payload && typeof payload === 'object' ? payload : {}
coercePayload(payload) == IF payload \in ObjectPayloads THEN payload ELSE "{}"

\* A direct flush() call from one of the Triggers.
FlushTrigger(src, beacon) ==
  LET fl == flush(Machine, beacon)
  IN /\ SetMachine(fl.m)
     /\ everFlushed' = (everFlushed \/ fl.how \in {"beacon", "post"})
     /\ lastOp' = Op("flush", fl.how, 0, 0, 0)
     /\ UNCHANGED <<D, timers, peers, N, W, cfg, dnt, lsOk, storage, clock, ids, enqCount>>

\* A direct flush() call from one of the Triggers on a platform that may
\* fail it. None of the callers (setInterval, setTimeout, the listeners) has
\* a try block: ret = 1 records that the exception reached the trigger.
FlushTriggerIn(src, beacon, fault) ==
  LET fl == flushIn(Machine, beacon, fault)
  IN /\ SetMachine(fl.m)
     /\ everFlushed' = (everFlushed \/ fl.how \in {"beacon", "post"})
     /\ lastOp' = Op("flush", fl.how, IF fl.how = "threw" THEN 1 ELSE 0, 0, 0)
     /\ UNCHANGED <<D, timers, peers, N, W, cfg, dnt, lsOk, storage, clock, ids, enqCount>>

Remove(s, i) == SubSeq(s, 1, i - 1) \o SubSeq(s, i + 1, Len(s))
Serials(s) == {s[i].n : i \in 1..Len(s)}

\* The fallback fetch resolves with a 2xx response: only .finally runs.
FetchOk(i) ==
  /\ i \in 1..Len(inflight)
  /\ state' = [state EXCEPT !.flushing = FALSE]
  /\ inflight' = Remove(inflight, i)
  /\ delivered' = delivered \o inflight[i]
  /\ lastOp' = Op("settle", "ok", Len(inflight[i]), inflight[i][1].n, 0)
  /\ UNCHANGED <<D, timers, peers, N, W, cfg, dnt, lsOk, storage, clock, ids, enqCount, everFlushed>>

\* The fallback fetch resolves with a non-2xx response: fetch does not reject
\* on an HTTP error status, so .catch is skipped and only .finally runs.
FetchNon2xx(i) ==
  /\ i \in 1..Len(inflight)
  /\ state' = [state EXCEPT !.flushing = FALSE]
  /\ inflight' = Remove(inflight, i)
  /\ lastOp' = Op("settle", "non2xx", Len(inflight[i]), inflight[i][1].n, 0)
  /\ UNCHANGED <<D, timers, peers, N, W, cfg, dnt, lsOk, storage, clock, ids, delivered, enqCount, everFlushed>>

\* Mutant of FetchReject: the flag is cleared where the fetch resolves only
\* (.then in place of .finally), so a rejected fetch leaves it set.
FetchReject_flagKept(i) ==
  /\ i \in 1..Len(inflight)
  /\ state' = [queue |-> unshift(state.queue, inflight[i]), flushing |-> state.flushing]
  /\ inflight' = Remove(inflight, i)
  /\ lastOp' = Op("settle", "neterr", Len(inflight[i]), inflight[i][1].n, 0)
  /\ UNCHANGED <<D, timers, peers, N, W, cfg, dnt, lsOk, storage, clock, ids, delivered, enqCount, everFlushed>>

\* The fallback fetch rejects (network error): .catch requeues, .finally clears.
FetchReject(i) ==
  /\ i \in 1..Len(inflight)
  /\ state' = [queue |-> unshift(state.queue, inflight[i]), flushing |-> FALSE]
  /\ inflight' = Remove(inflight, i)
  /\ lastOp' = Op("settle", "neterr", Len(inflight[i]), inflight[i][1].n, 0)
  /\ UNCHANGED <<D, timers, peers, N, W, cfg, dnt, lsOk, storage, clock, ids, delivered, enqCount, everFlushed>>

\* API.consentGranted(): ls.set('cc_consent_granted', true)
GrantConsent ==
  /\ storage' = lsSet(storage, CONSENT_KEY, TRUE)
  /\ lastOp' = Op("consentGranted", "", 0, 0, 0)
  /\ UNCHANGED <<D, timers, peers, N, W, cfg, dnt, lsOk, clock, ids, state, inflight, delivered,
                 enqCount, everFlushed>>


\* getSessionId() called by a collaborator.
GetSessionId ==
  LET r == getSessionId(storage, clock, ids)
      had == lsHas(storage, SID_KEY)
  IN /\ r.ids <= MaxIds
     /\ storage' = r.storage
     /\ ids' = r.ids
     /\ lastOp' = Op("getSessionId", "", r.id,
                     IF had THEN lsGet(storage, SID_KEY).id ELSE 0,
                     IF had THEN clock - lsGet(storage, SID_KEY).last ELSE 0)
     /\ UNCHANGED <<D, timers, peers, N, W, cfg, dnt, lsOk, clock, state, inflight, delivered,
                    enqCount, everFlushed>>

\* getVisitorId() called by a collaborator.
GetVisitorId ==
  LET r == getVisitorId(storage, ids)
  IN /\ r.ids <= MaxIds
     /\ storage' = r.storage
     /\ ids' = r.ids
     /\ lastOp' = Op("getVisitorId", "", r.id, 0, 0)
     /\ UNCHANGED <<D, timers, peers, N, W, cfg, dnt, lsOk, clock, state, inflight, delivered,
                    enqCount, everFlushed>>

\* touchSession() called by a collaborator.
TouchSession ==
  /\ storage' = touchSession(storage, clock)
  /\ lastOp' = Op("touchSession", "", 0, 0, 0)
  /\ UNCHANGED <<D, timers, peers, N, W, cfg, dnt, lsOk, clock, ids, state, inflight, delivered,
                 enqCount, everFlushed>>

\* Time passes between handlers.
Tick ==
  /\ clock < MaxTime
  /\ clock' = clock + 1
  /\ UNCHANGED <<D, timers, peers, N, W, cfg, dnt, lsOk, storage, ids, state, inflight, delivered,
                 enqCount, everFlushed, lastOp>>

\* An entry of the store is removed from outside the script (the visitor
\* clears site data): ls.get then finds nothing under the key.
ClearEntry(k) ==
  /\ k \in DOMAIN storage
  /\ storage' = [x \in (DOMAIN storage) \ {k} |-> storage[x]]
  /\ lastOp' = Op("clear", k, 0, 0, 0)
  /\ UNCHANGED <<D, timers, peers, N, W, cfg, dnt, lsOk, clock, ids, state, inflight, delivered,
                 enqCount, everFlushed>>

\* The visitor switches the browser's do-not-track setting while the page is
\* open: navigator.doNotTrack changes; the script runs no code at that moment.
DntChange(v) ==
  /\ v # N.doNotTrack
  /\ N' = [N EXCEPT !.doNotTrack = v]
  /\ lastOp' = Op("dntChange", v, 0, 0, 0)
  /\ UNCHANGED <<D, timers, peers, W, cfg, dnt, lsOk, storage, clock, ids, state, inflight,
                 delivered, enqCount, everFlushed>>

\* The delivery state of a copy that has just been loaded.
EmptyMachine ==
  [state |-> [queue |-> <<>>, flushing |-> FALSE], inflight |-> <<>>,
   delivered |-> <<>>]
Peers == {2, 3}

World == [storage |-> storage, ids |-> ids, cnt |-> enqCount]
SetWorld(w) ==
  /\ storage' = w.storage
  /\ ids' = w.ids
  /\ enqCount' = w.cnt

\* The three copies run init() in file order, each at the end of its own
\* evaluation (the script is included with `defer`, so the document is
\* 'interactive'), right after the page was loaded: perf(), trackPageview(),
\* pollActiveMessages(). By default the first copy polls for campaign
\* messages (line 83), the second does not (621) and the third has no such
\* call. (a, b, c: the results of the steps in the first, second, third copy.)
InitAll(nav, beacon) ==
  /\ lastOp.op = "load"
  /\ \E a1 \in {perf([m |-> Machine, w |-> World], nav, beacon)} :
     \E a2 \in {trackPageview(a1, beacon)} :
     \E a3 \in {pollActiveMessages(a2, TRUE)} :
     \E b1 \in {perf([m |-> peers[2], w |-> a3.w], nav, beacon)} :
     \E b2 \in {trackPageview(b1, beacon)} :
     \E b3 \in {pollActiveMessages(b2, FALSE)} :
     \E c1 \in {perf([m |-> peers[3], w |-> b3.w], nav, beacon)} :
     \E c2 \in {trackPageview(c1, beacon)} :
       /\ SetMachine(a3.m)
       /\ peers' = [c \in Peers |-> IF c = 2 THEN b3.m ELSE c2.m]
       /\ SetWorld(c2.w)
       /\ lastOp' = Op("init", "", c2.w.cnt - enqCount, 0, 0)
  /\ UNCHANGED <<D, timers, N, W, cfg, dnt, lsOk, clock, everFlushed>>

\* W.CC.embed.track(type, payload): every copy assigns W.CC.embed = API
\* (459, 1119, 1538), so the page sees the API of the third copy, whose
\* track is that copy's enqueue itself.
ApiTrack(type, payload, beacon) ==
  /\ enqCount < MaxEnq
  /\ LET r == enqueue(peers[3], World, type, payload, beacon)
     IN /\ peers' = [peers EXCEPT ![3] = r.m]
        /\ SetWorld(r.w)
        /\ lastOp' = Op("CC.embed.track", r.how, r.w.cnt, 0, 0)
  /\ UNCHANGED <<D, timers, N, W, cfg, dnt, lsOk, clock, state, inflight, delivered,
                 everFlushed>>

\* W.CC_EMBED.track(type, payload), defined by the second copy only:
\* enqueue(String(type||'custom'), payload coerced) on that copy, then
\* scheduleFlush(), whose timeout is a later flush of that copy.
EmbedTrack(type, payload, beacon) ==
  /\ enqCount < MaxEnq
  /\ LET r == enqueue(peers[2], World, typeName(type), coercePayload(payload),
                      beacon)
     IN /\ peers' = [peers EXCEPT ![2] = r.m]
        /\ SetWorld(r.w)
        /\ lastOp' = Op("CC_EMBED.track", r.how, r.w.cnt, 0, 0)
  /\ UNCHANGED <<D, timers, N, W, cfg, dnt, lsOk, clock, state, inflight, delivered,
                 everFlushed>>

\* A direct flush() call in the second or third copy (each copy installs its
\* own timers and listeners).
PeerFlush(c, src, beacon) ==
  /\ peers' = [peers EXCEPT ![c] = flush(peers[c], beacon).m]
  /\ lastOp' = Op("flush", flush(peers[c], beacon).how, c, 0, 0)
  /\ UNCHANGED <<D, timers, N, W, cfg, dnt, lsOk, storage, clock, ids, state, inflight,
                 delivered, enqCount, everFlushed>>

\* The fallback fetch of the second or third copy settles.
PeerSettle(c, outcome) ==
  /\ peers[c].inflight # <<>>
  /\ LET batch == Head(peers[c].inflight)
         m == peers[c]
     IN /\ peers' = [peers EXCEPT ![c] =
              [state |-> [queue |-> IF outcome = "neterr"
                                      THEN unshift(m.state.queue, batch)
                                      ELSE m.state.queue,
                          flushing |-> FALSE],
               inflight |-> Tail(m.inflight),
               delivered |-> IF outcome = "ok" THEN m.delivered \o batch
                                               ELSE m.delivered]]
        /\ lastOp' = Op("settle", outcome, Len(batch), batch[1].n, c)
  /\ UNCHANGED <<D, timers, N, W, cfg, dnt, lsOk, storage, clock, ids, state, inflight,
                 delivered, enqCount, everFlushed>>

\* Mutant of scheduleFlush: no timer is set.
scheduleFlush_dropped(ts, pv) == ts

\* scheduleFlush(): setTimeout(flush, 250); pv is the serial of the pageview
\* the caller has just queued (0 when the gate refused it).
scheduleFlush(ts, pv) == Append(ts, pv)

\* onChange() of hookSPA, reached from history.pushState, history.replaceState
\* (after the original method has run) or a popstate event: touchSession(),
\* trackPageview({ spa:true }), scheduleFlush(), pollActiveMessages().
\* The three entries run the same onChange; kind names the entry taken.
SpaNavigate(kind, beacon) ==
  /\ kind \in RouteChanges
  /\ Len(timers) < MaxTimers
  /\ readyToTrack => enqCount < MaxEnq
  /\ \E t1 \in {[m |-> Machine,
                 w |-> [World EXCEPT !.storage = touchSession(storage, clock)]]} :
     \E t2 \in {trackPageview(t1, beacon)} :
     \E t3 \in {pollActiveMessages(t2, TRUE)} :
       /\ t3.w.ids <= MaxIds
       /\ SetMachine(t3.m)
       /\ SetWorld(t3.w)
       /\ timers' = scheduleFlush(timers, IF t2.w.cnt > enqCount THEN t2.w.cnt ELSE 0)
       /\ everFlushed' = (everFlushed \/ Len(t3.m.inflight) > Len(inflight)
                                      \/ Len(t3.m.delivered) > Len(delivered))
       /\ lastOp' = Op("onChange", IF t2.w.cnt > enqCount THEN "queued" ELSE "denied",
                       t2.w.cnt - enqCount, 0, 0)
  /\ UNCHANGED <<D, peers, N, W, cfg, dnt, lsOk, clock>>

\* The oldest pending timer of scheduleFlush fires: flush().
TimeoutFires(beacon) ==
  /\ timers # <<>>
  /\ LET fl == flush(Machine, beacon)
     IN /\ SetMachine(fl.m)
        /\ everFlushed' = (everFlushed \/ fl.how \in {"beacon", "post"})
        /\ lastOp' = Op("timeout", fl.how, Head(timers), 0, 0)
  /\ timers' = Tail(timers)
  /\ UNCHANGED <<D, peers, N, W, cfg, dnt, lsOk, storage, clock, ids, enqCount>>

\* Mutant of BeforeUnload: no listener is registered for beforeunload.
BeforeUnload_unhooked(beacon) ==
  /\ lastOp' = Op("beforeunload", "skipped", 0, 0, 0)
  /\ UNCHANGED <<D, timers, peers, N, W, cfg, dnt, lsOk, storage, clock, ids, state,
                 inflight, delivered, enqCount, everFlushed>>

\* W.addEventListener('beforeunload', flush)
BeforeUnload(beacon) ==
  /\ LET fl == flush(Machine, beacon)
     IN /\ SetMachine(fl.m)
        /\ everFlushed' = (everFlushed \/ fl.how \in {"beacon", "post"})
        /\ lastOp' = Op("beforeunload", fl.how, 0, 0, 0)
  /\ UNCHANGED <<D, timers, peers, N, W, cfg, dnt, lsOk, storage, clock, ids, enqCount>>

\* Mutant of visibilityFlushes: every visibility change flushes.
visibilityFlushes_always(v) == v \in VisibilityStates

\* if (D.visibilityState==='hidden') flush()
visibilityFlushes(v) == v = "hidden"

\* The page becomes hidden or visible: the browser sets
\* document.visibilityState and then runs the visibilitychange listener.
VisibilityChange(v, beacon) ==
  /\ v # D.visibilityState
  /\ D' = [D EXCEPT !.visibilityState = v]
  /\ LET fl == IF visibilityFlushes(v)
                 THEN flush(Machine, beacon)
                 ELSE [m |-> Machine, how |-> "none"]
     IN /\ SetMachine(fl.m)
        /\ everFlushed' = (everFlushed \/ fl.how \in {"beacon", "post"})
        /\ lastOp' = Op("visibilitychange", fl.how, 0, 0, 0)
  /\ UNCHANGED <<timers, peers, N, W, cfg, dnt, lsOk, storage, clock, ids, enqCount>>

\* { vis: D.visibilityState }, the payload of a heartbeat record
visPayload(v) == IF v = "visible" THEN "{vis:visible}" ELSE "{vis:hidden}"

\* A tick of setInterval(..., cfg.heartbeatMs):
\* if (D.visibilityState==='visible') heartbeat(), which is enqueue('hb', ...).
HeartbeatTick(beacon) ==
  /\ readyToTrack => enqCount < MaxEnq
  /\ \E r \in {IF D.visibilityState = "visible"
                 THEN enqueue(Machine, World, "hb", visPayload(D.visibilityState), beacon)
                 ELSE [m |-> Machine, w |-> World, how |-> "none"]} :
       /\ r.w.ids <= MaxIds
       /\ SetMachine(r.m)
       /\ SetWorld(r.w)
       /\ everFlushed' = (everFlushed \/ r.how \in {"beacon", "post"})
       /\ lastOp' = Op("heartbeat", r.how, r.w.cnt - enqCount, 0, 0)
  /\ UNCHANGED <<D, timers, peers, N, W, cfg, dnt, lsOk, clock>>

\* The visitor opens another page of the site: the three copies of the script
\* are evaluated in file order. Each copy computes dnt, records the referrer
\* and starts with an empty queue; the store carries over, the requests of the
\* page that was left are gone, and the history starts again.
LoadPage(ref) ==
  /\ dnt' = dntSignal(N, W)
  /\ storage' = recordReferrer(recordReferrer(recordReferrer(storage, ref), ref), ref)
  /\ state' = EmptyMachine.state
  /\ inflight' = <<>>
  /\ delivered' = <<>>
  /\ peers' = [c \in Peers |-> EmptyMachine]
  /\ enqCount' = 0
  /\ everFlushed' = FALSE
  /\ timers' = <<>>
  /\ lastOp' = Op("load", ref, 0, 0, 0)
  /\ UNCHANGED <<D, N, W, cfg, lsOk, clock, ids>>

\* ------------------------------------------------------------------ specification
\* The script has just been loaded: empty queue, nothing stored yet.
Init ==
  /\ D = [visibilityState |-> "visible"]
  /\ timers = <<>>
  /\ N \in [doNotTrack : DntValues, msDoNotTrack : DntValues]
  /\ W \in [doNotTrack : DntValues]
  /\ cfg \in [siteId : SiteIds, endpoint : Endpoints, consentRequired : BOOLEAN]
  /\ dnt = dntSignal(N, W)
  /\ lsOk \in BOOLEAN
  /\ storage = <<>>
  /\ clock = 0
  /\ ids = 0
  /\ state = [queue |-> <<>>, flushing |-> FALSE]
  /\ inflight = <<>>
  /\ delivered = <<>>
  /\ enqCount = 0
  /\ everFlushed = FALSE
  /\ lastOp = Op("load", "", 0, 0, 0)
  /\ peers = [c \in Peers |-> EmptyMachine]

Next ==
  \/ \E t \in Types, p \in Payloads :
       \E b \in BeaconTried(push(state.queue, [n |-> enqCount + 1])) :
         Enqueue(t, p, b)
  \/ \E src \in Triggers, b \in BeaconTried(state.queue) : FlushTrigger(src, b)
  \/ \E i \in 1..Len(inflight) : FetchOk(i)
  \/ \E i \in 1..Len(inflight) : FetchNon2xx(i)
  \/ \E i \in 1..Len(inflight) : FetchReject(i)
  \/ GrantConsent
  \/ GetSessionId
  \/ GetVisitorId
  \/ TouchSession
  \/ Tick

Spec == Init /\ [][Next]_vars

\* The delivery engine alone, with the platform's guarantee that a fetch
\* settles: the promise of line 183 is resolved or rejected after finite time
\* (response, network error or the network stack's timeout), and its
\* .catch/.finally callbacks then run.
Settle ==
  \E i \in 1..Len(inflight) : FetchOk(i) \/ FetchNon2xx(i) \/ FetchReject(i)

NextDelivery ==
  \/ \E t \in Types, p \in Payloads :
       \E b \in BeaconTried(push(state.queue, [n |-> enqCount + 1])) :
         Enqueue(t, p, b)
  \/ \E src \in Triggers, b \in BeaconTried(state.queue) : FlushTrigger(src, b)
  \/ \E i \in 1..Len(inflight) : FetchOk(i)
  \/ \E i \in 1..Len(inflight) : FetchNon2xx(i)
  \/ \E i \in 1..Len(inflight) : FetchReject(i)
  \/ GrantConsent

SpecDelivery == Init /\ [][NextDelivery]_vars /\ WF_vars(Settle)

\* Page loads only, on a site that is configured (site id and endpoint set).
InitConfigured ==
  /\ Init
  /\ cfg.siteId # "" /\ cfg.endpoint # ""
  /\ N.msDoNotTrack = "unspecified" /\ W.doNotTrack = "unspecified"

\* The delivery engine on a page where the gate can close again: the stored
\* consent entry may be removed from outside while records are queued.
NextGate ==
  \/ \E t \in Types, p \in Payloads :
       \E b \in BeaconTried(push(state.queue, [n |-> enqCount + 1])) :
         Enqueue(t, p, b)
  \/ \E src \in Triggers, b \in BeaconTried(state.queue) : FlushTrigger(src, b)
  \/ \E i \in 1..Len(inflight) : FetchOk(i)
  \/ \E i \in 1..Len(inflight) : FetchNon2xx(i)
  \/ \E i \in 1..Len(inflight) : FetchReject(i)
  \/ GrantConsent
  \/ \E k \in {CONSENT_KEY} : ClearEntry(k)

SpecGate == Init /\ [][NextGate]_vars

\* Route changes of a single-page application in the first copy on a page
\* that asks for consent (data-consent-required="true"): onChange and the
\* flushes it schedules, settling POSTs, and consent being stored and
\* removed, so that the gate opens and closes.
NextSpa ==
  \/ \E kind \in RouteChanges :
       \E b \in BeaconTried(push(state.queue, [n |-> enqCount + 1])) :
         SpaNavigate(kind, b)
  \/ \E b \in BeaconTried(state.queue) : TimeoutFires(b)
  \/ \E i \in 1..Len(inflight) : FetchOk(i)
  \/ \E i \in 1..Len(inflight) : FetchNon2xx(i)
  \/ \E i \in 1..Len(inflight) : FetchReject(i)
  \/ GrantConsent
  \/ \E k \in {CONSENT_KEY} : ClearEntry(k)

InitSpa == InitConfigured /\ cfg.consentRequired

SpecSpa == InitSpa /\ [][NextSpa]_vars

\* Route changes with idle time between them, on a configured page.
NextSpaIdle ==
  \/ \E kind \in RouteChanges :
       \E b \in BeaconTried(push(state.queue, [n |-> enqCount + 1])) :
         SpaNavigate(kind, b)
  \/ \E b \in BeaconTried(state.queue) : TimeoutFires(b)
  \/ \E i \in 1..Len(inflight) : FetchOk(i)
  \/ \E i \in 1..Len(inflight) : FetchNon2xx(i)
  \/ \E i \in 1..Len(inflight) : FetchReject(i)
  \/ Tick

SpecSpaIdle == InitConfigured /\ [][NextSpaIdle]_vars

\* Visibility and unload in the first copy on a configured page: visibility
\* changes, heartbeat ticks, beforeunload, and settling POSTs.
NextVisibility ==
  \/ \E v \in VisibilityStates, b \in BeaconTried(state.queue) : VisibilityChange(v, b)
  \/ \E b \in BeaconTried(push(state.queue, [n |-> enqCount + 1])) : HeartbeatTick(b)
  \/ \E b \in BeaconTried(state.queue) : BeforeUnload(b)
  \/ \E i \in 1..Len(inflight) : FetchOk(i)
  \/ \E i \in 1..Len(inflight) : FetchNon2xx(i)
  \/ \E i \in 1..Len(inflight) : FetchReject(i)

SpecVisibility == InitConfigured /\ [][NextVisibility]_vars

\* Records and sessions on a configured page without consent requirement:
\* enqueue, flush and its triggers, settling POSTs, session touches and time.
NextSession ==
  \/ \E t \in Types, p \in Payloads :
       \E b \in BeaconTried(push(state.queue, [n |-> enqCount + 1])) :
         Enqueue(t, p, b)
  \/ \E src \in Triggers, b \in BeaconTried(state.queue) : FlushTrigger(src, b)
  \/ \E i \in 1..Len(inflight) : FetchOk(i)
  \/ \E i \in 1..Len(inflight) : FetchNon2xx(i)
  \/ \E i \in 1..Len(inflight) : FetchReject(i)
  \/ TouchSession
  \/ Tick

InitSession == InitConfigured /\ ~cfg.consentRequired

SpecSession == InitSession /\ [][NextSession]_vars

\* The delivery engine on a platform that may fail a flush, on a configured
\* page without consent requirement.
NextFault ==
  \/ \E t \in Types, p \in Payloads :
       \E b \in BeaconTried(push(state.queue, [n |-> enqCount + 1])) :
         Enqueue(t, p, b)
  \/ \E src \in Triggers, b \in BeaconTried(state.queue), f \in FlushFaults :
       FlushTriggerIn(src, b, f)
  \/ \E i \in 1..Len(inflight) : FetchOk(i)
  \/ \E i \in 1..Len(inflight) : FetchNon2xx(i)
  \/ \E i \in 1..Len(inflight) : FetchReject(i)

SpecFault == InitSession /\ [][NextFault]_vars

\* The delivery engine on a configured page without consent requirement
\* (tracking stays allowed), with what the platform guarantees: the timer
\* of setInterval(flush, 5000) keeps firing, a pending fetch settles, and
\* deliveries do not fail for ever (a delivery that is attempted again and
\* again succeeds at some time: the beacon accepts, or the POST gets a 2xx).
IntervalFlush == \E b \in BeaconTried(state.queue) : FlushTrigger("interval", b)
DeliverySucceeds ==
  \/ /\ "accepted" \in BeaconTried(state.queue)
     /\ FlushTrigger("interval", "accepted")
  \/ \E i \in 1..Len(inflight) : FetchOk(i)

NextLive ==
  \/ \E t \in Types, p \in Payloads :
       \E b \in BeaconTried(push(state.queue, [n |-> enqCount + 1])) :
         Enqueue(t, p, b)
  \/ IntervalFlush
  \/ \E i \in 1..Len(inflight) : FetchOk(i)
  \/ \E i \in 1..Len(inflight) : FetchNon2xx(i)
  \/ \E i \in 1..Len(inflight) : FetchReject(i)

SpecLive ==
  /\ InitSession /\ [][NextLive]_vars
  /\ WF_vars(IntervalFlush) /\ WF_vars(Settle) /\ SF_vars(DeliverySucceeds)

\* Identity alone: the getters and touchSession as collaborators call them,
\* over page loads, the passing of time and entries removed from outside.
NextIdentity ==
  \/ GetSessionId
  \/ GetVisitorId
  \/ TouchSession
  \/ Tick
  \/ \E k \in {VID_KEY, SID_KEY} : ClearEntry(k)
  \/ \E ref \in {""} : LoadPage(ref)

SpecIdentity == InitConfigured /\ [][NextIdentity]_vars

\* The delivery engine on a page whose context may fail to be read.
NextContext ==
  \/ \E t \in Types, p \in Payloads, ctx \in ContextOutcomes :
       \E b \in BeaconTried(push(state.queue, [n |-> enqCount + 1])) :
         EnqueueInContext(t, p, b, ctx)
  \/ \E src \in Triggers, b \in BeaconTried(state.queue) : FlushTrigger(src, b)
  \/ \E i \in 1..Len(inflight) : FetchOk(i)
  \/ \E i \in 1..Len(inflight) : FetchNon2xx(i)
  \/ \E i \in 1..Len(inflight) : FetchReject(i)
  \/ GrantConsent

SpecContext == InitConfigured /\ [][NextContext]_vars

\* The delivery engine on a page where the do-not-track setting may change.
NextSignal ==
  \/ \E v \in DntValues : DntChange(v)
  \/ \E t \in Types, p \in Payloads :
       \E b \in BeaconTried(push(state.queue, [n |-> enqCount + 1])) :
         Enqueue(t, p, b)
  \/ \E src \in Triggers, b \in BeaconTried(state.queue) : FlushTrigger(src, b)
  \/ \E i \in 1..Len(inflight) : FetchOk(i)
  \/ \E i \in 1..Len(inflight) : FetchNon2xx(i)
  \/ \E i \in 1..Len(inflight) : FetchReject(i)
  \/ GrantConsent

SpecSignal == InitConfigured /\ [][NextSignal]_vars

\* One page with the three copies and the public track entry points, on a
\* site that does not ask for consent and initialises by itself
\* (data-auto-init defaults to true, line 87): init() has run before any page
\* script or timer gets its turn.
InitPage == InitConfigured /\ ~cfg.consentRequired

Initialised == lastOp.op # "load"

NextPage ==
  \/ \E nav \in BOOLEAN, b \in BeaconOutcomes : InitAll(nav, b)
  \/ /\ Initialised
     /\ \E t \in TypeInputs, p \in PayloadInputs :
          \E b \in BeaconTried(push(peers[3].state.queue, [n |-> enqCount + 1])) :
            ApiTrack(t, p, b)
  \/ /\ Initialised
     /\ \E t \in TypeInputs, p \in PayloadInputs :
          \E b \in BeaconTried(push(peers[2].state.queue, [n |-> enqCount + 1])) :
            EmbedTrack(t, p, b)
  \/ /\ Initialised
     /\ \E src \in Triggers, b \in BeaconTried(state.queue) : FlushTrigger(src, b)
  \/ \E i \in 1..Len(inflight) : FetchOk(i)
  \/ \E i \in 1..Len(inflight) : FetchNon2xx(i)
  \/ \E i \in 1..Len(inflight) : FetchReject(i)
  \/ /\ Initialised
     /\ \E c \in Peers, src \in Triggers :
          \E b \in BeaconTried(peers[c].state.queue) : PeerFlush(c, src, b)
  \/ \E c \in Peers, o \in {"ok", "non2xx", "neterr"} : PeerSettle(c, o)

SpecPage == InitPage /\ [][NextPage]_vars

NextTrail == \E ref \in Referrers : LoadPage(ref)

SpecTrail == InitConfigured /\ [][NextTrail]_vars

\* ------------------------------------------------------------------ properties
queue == state.queue

\* The records of q are in enqueue order (strictly increasing serial numbers).
InCallOrder(q) == \A i, j \in 1..Len(q) : i < j => q[i].n < q[j].n

\* The gate inputs as the specification names them, read off the platform,
\* the configuration and the store.
DoNotTrackInput == "1" \in {N.doNotTrack, N.msDoNotTrack, W.doNotTrack}
ConsentGrantedInput == lsOk /\ CONSENT_KEY \in DOMAIN storage
SiteIdPresent == cfg.siteId # ""
EndpointPresent == cfg.endpoint # ""
GateFormula ==
  /\ ~DoNotTrackInput
  /\ (~cfg.consentRequired \/ ConsentGrantedInput)
  /\ SiteIdPresent
  /\ EndpointPresent

\* A step in which an enqueue call ran (Tick keeps lastOp; a denied call that
\* follows a denied call changes nothing at all).
EnqueueStep == lastOp'.op = "enqueue" /\ lastOp' # lastOp
\* A step in which an enqueue call built and pushed a record.
EnqueueAccepted == enqCount' = enqCount + 1
\* A step in which a fallback POST settled with the given outcome.
Settled(how) ==
  /\ lastOp'.op = "settle" /\ lastOp'.how = how
  /\ Len(inflight') + 1 = Len(inflight)
\* The batch that settled in such a step went back to the front of the queue.
BatchBackInFront ==
  \E i \in 1..Len(inflight) :
    /\ inflight' = Remove(inflight, i)
    /\ state'.queue = inflight[i] \o state.queue

\* C1: after N enqueue calls that passed the gate, N < maxBatch, with no flush
\* having taken a batch in between, the queue holds exactly N records and
\* record i is the one built by call i.
C1_QueueHoldsCallsInOrder ==
  (~everFlushed /\ enqCount < maxBatch) =>
    /\ Len(queue) = enqCount
    /\ \A i \in 1..Len(queue) : queue[i].n = i

\* C1 witness: maxBatch - 1 calls were made and nothing was flushed.
C1_Witness ==
  /\ ~everFlushed /\ lastOp.op = "enqueue"
  /\ enqCount = maxBatch - 1 /\ enqCount > 1
  /\ Len(queue) = enqCount

\* C2 as stated: from every state in which tracking is allowed, an enqueue that
\* brings the queue length to maxBatch or more leaves the queue empty when it
\* returns.
C2_FullQueueAlwaysEmptied ==
  [][(EnqueueAccepted /\ Len(state.queue) + 1 >= maxBatch)
       => Len(state'.queue) = 0]_vars

\* C2 amended: the same when no flush is in progress (flushing = FALSE) at the
\* call: the queue is empty when enqueue returns and the whole queue, the new
\* record last, went to the beacon or into the fallback POST.
C2_FullQueueEmptiedUnlessFlushing ==
  [][(EnqueueAccepted /\ Len(state.queue) + 1 >= maxBatch /\ ~state.flushing)
       => /\ Len(state'.queue) = 0
          /\ LET sent == IF Len(inflight') > Len(inflight)
                           THEN inflight'[Len(inflight')]
                           ELSE SubSeq(delivered', Len(delivered) + 1,
                                       Len(delivered'))
             IN /\ Len(sent) = Len(state.queue) + 1
                /\ SubSeq(sent, 1, Len(state.queue)) = state.queue
                /\ sent[Len(sent)].n = enqCount']_vars

\* C2 witness: an enqueue found the queue one short of maxBatch or longer, ran
\* flush and returned with the queue empty.
C2_Witness ==
  /\ lastOp.op = "enqueue" /\ lastOp.how \in {"beacon", "post"}
  /\ Len(queue) = 0
  /\ enqCount >= maxBatch

\* C3: when the gate denies (do-not-track, or consent required and not granted,
\* or no site id, or no endpoint) an enqueue call changes nothing: queue,
\* flushing flag, stored entries, transmissions and generated ids stay as they
\* were, and the call returns normally.
C3_DeniedEnqueueIsNoOp ==
  [][(EnqueueStep /\ ~GateFormula)
       => /\ UNCHANGED <<state, storage, inflight, delivered, ids, enqCount>>
          /\ lastOp'.how = "denied"]_vars

\* C3 witness: consent is required and was not granted, a session and a
\* visitor id are already stored, and an enqueue call has just returned.
C3_Witness ==
  /\ lastOp.op = "enqueue" /\ lastOp.how = "denied"
  /\ cfg.consentRequired /\ ~DoNotTrackInput /\ SiteIdPresent /\ EndpointPresent
  /\ lsOk /\ SID_KEY \in DOMAIN storage /\ VID_KEY \in DOMAIN storage
  /\ queue = <<>>

\* C4: the gate result equals NOT doNotTrack AND (NOT consentRequired OR
\* consentGranted) AND siteIdPresent AND endpointPresent.
C4_GateEqualsFormula == readyToTrack = GateFormula

\* C4 witness: consent is required and was granted, so the gate allowed an
\* enqueue.
C4_Witness ==
  /\ cfg.consentRequired /\ ConsentGrantedInput
  /\ lastOp.op = "enqueue" /\ lastOp.how = "queued"

C5_ConsentPart ==
  (cfg.consentRequired /\ ~DoNotTrackInput /\ SiteIdPresent /\ EndpointPresent)
C5_BeforeGrant ==
  (C5_ConsentPart /\ ~ConsentGrantedInput) => (queue = <<>> /\ enqCount = 0)
C5_GrantStores ==
  (C5_ConsentPart /\ lsOk /\ lastOp.op = "consentGranted") => hasConsent
C5_AfterGrant ==
  (C5_ConsentPart /\ lsOk /\ ConsentGrantedInput) =>
    /\ ConsentGrantedInput'
    /\ EnqueueStep =>
         /\ EnqueueAccepted
         /\ lastOp'.how # "denied"
         /\ IF state'.queue = <<>>
              THEN lastOp'.how \in {"beacon", "post"}
              ELSE /\ Len(state'.queue) = Len(state.queue) + 1
                   /\ SubSeq(state'.queue, 1, Len(state.queue)) = state.queue
                   /\ state'.queue[Len(state'.queue)].n = enqCount'
C7_NetworkErrorRequeuesInFront ==
  [][Settled("neterr")
       => /\ BatchBackInFront
          /\ InCallOrder(state'.queue)
          /\ Len(state'.queue) = lastOp'.ret + Len(state.queue)]_vars

\* C7 witness: a batch of two failed with a network error while a third
\* record was waiting; all three are queued.
C7_Witness ==
  /\ lastOp.op = "settle" /\ lastOp.how = "neterr" /\ lastOp.ret = 2
  /\ Len(queue) = 3

\* C8: when the fallback POST completes with a non-2xx response the whole
\* batch is pushed back onto the front of the queue, as for a network error.
C8_Non2xxRequeuesInFront ==
  [][Settled("non2xx") => BatchBackInFront]_vars

\* The last handler was a delivery that succeeded and left nothing pending.
Drained ==
  /\ \/ lastOp.op = "settle" /\ lastOp.how = "ok"
     \/ lastOp.op \in {"flush", "enqueue"} /\ lastOp.how = "beacon"
  /\ queue = <<>> /\ inflight = <<>>

\* C9: when a run of enqueues, flushes and delivery outcomes ends with a
\* successful flush that drains the queue, every enqueued record has been
\* delivered exactly once.
C9_EveryRecordDeliveredOnce ==
  Drained =>
    \A n \in 1..enqCount :
      Cardinality({i \in 1..Len(delivered) : delivered[i].n = n}) = 1

\* C10: the delivered records, in delivery order, are in enqueue order, and no
\* record is delivered while a record enqueued before it is still undelivered
\* (an undelivered earlier record is one of a failed batch: flush takes the
\* whole queue and nothing is enqueued into a batch).
C10_DeliveredInEnqueueOrder ==
  /\ InCallOrder(delivered)
  /\ \A i \in 1..Len(delivered) :
       \A m \in 1..(delivered[i].n - 1) :
         \E j \in 1..(i - 1) : delivered[j].n = m

\* The records of all transmissions: fallback POSTs that are pending, then the
\* records handed over successfully.
RECURSIVE Flatten(_)
Flatten(batches) ==
  IF batches = <<>> THEN <<>> ELSE Head(batches) \o Flatten(Tail(batches))
Transmitted == Flatten(inflight) \o delivered
NoDuplicates(q) == \A i, j \in 1..Len(q) : i # j => q[i].n # q[j].n

\* C11: whatever the order of the flush triggers (interval, online,
\* beforeunload, hidden, timeout, and the flush inside enqueue), a step that
\* issues a fallback POST finds flushing FALSE and leaves it TRUE, at most one
\* fallback POST is pending, and no record is in two transmissions: none is in
\* two pending batches, pending and delivered, delivered twice, or still
\* queued while it is being transmitted.
C11_PostIssuedUnderFlag ==
  Len(inflight') > Len(inflight) => (~state.flushing /\ state'.flushing)
C11_OneTransmissionPerRecord ==
  /\ Len(inflight) <= 1
  /\ (Len(inflight) = 1 => state.flushing)
  /\ NoDuplicates(Transmitted \o queue)
C11_FlushMutualExclusion ==
  /\ []C11_OneTransmissionPerRecord
  /\ [][C11_PostIssuedUnderFlag]_vars

\* C11 witness: a flush trigger ran while a fallback POST was pending and
\* records were waiting, and returned without taking them.
C11_Witness ==
  /\ lastOp.op = "flush" /\ lastOp.how = "skipped"
  /\ state.flushing /\ Len(inflight) = 1
  /\ Len(queue) >= 1 /\ readyToTrack

\* A step in which flush ran (directly or inside enqueue) and took a batch.
FlushTook(how) ==
  /\ lastOp' # lastOp /\ lastOp'.op \in {"flush", "enqueue"} /\ lastOp'.how = how

Trail == IF lsHas(storage, REF_KEY) THEN lsGet(storage, REF_KEY) ELSE <<>>
LastOf(trail) == trail[Len(trail)]

\* C13: over any sequence of page loads the stored trail has at most 5
\* entries and no two equal neighbours; a load whose referrer is the last
\* entry leaves the trail as it was; with a working store a new referrer is
\* appended, and appended to a full trail it pushes the oldest entry out.
C13_TrailShape ==
  /\ Len(Trail) <= TrailCap
  /\ \A i \in 1..(Len(Trail) - 1) : Trail[i] # Trail[i + 1]
C13_TrailStep ==
  lastOp'.op = "load" =>
    LET ref == lastOp'.how
        isNew == ref # "" /\ (Len(Trail) = 0 \/ LastOf(Trail) # ref)
    IN /\ (Len(Trail) > 0 /\ ref = LastOf(Trail)) => Trail' = Trail
       /\ (lsOk /\ isNew /\ Len(Trail) < TrailCap) => Trail' = Append(Trail, ref)
       /\ (lsOk /\ isNew /\ Len(Trail) = TrailCap)
            => Trail' = Append(Tail(Trail), ref)
C13_ReferrerTrailBounded ==
  /\ []C13_TrailShape
  /\ [][C13_TrailStep]_vars

\* C13 witness: r1 .. r6 arrived in this order; r1 is gone.
C13_Witness ==
  /\ lastOp.op = "load" /\ lastOp.how = "r6"
  /\ Trail = <<"r2", "r3", "r4", "r5", "r6">>

\* A step in which the named identity function ran (Tick keeps lastOp and
\* moves the clock; every other handler names itself in lastOp).
IdentityStep(op) == lastOp'.op = op /\ clock' = clock
VisitorStored == lsHas(storage, VID_KEY)
SessionStored == lsHas(storage, SID_KEY)
OtherEntriesKept(k) ==
  /\ DOMAIN storage' = DOMAIN storage \cup {k}
  /\ \A x \in DOMAIN storage \ {k} : storage'[x] = storage[x]

\* C14: with a working store, a getVisitorId call that finds no id generates
\* one and stores it; a call that finds one returns it and writes nothing;
\* and the stored id stays what it is, over page loads too, until the entry
\* is removed from outside.
C14_VisitorCall ==
  (lsOk /\ IdentityStep("getVisitorId")) =>
    IF VisitorStored
      THEN /\ lastOp'.ret = lsGet(storage, VID_KEY)
           /\ UNCHANGED <<storage, ids>>
      ELSE /\ ids' = ids + 1 /\ lastOp'.ret = ids'
           /\ VisitorStored' /\ lsGet(storage', VID_KEY) = lastOp'.ret
           /\ OtherEntriesKept(VID_KEY)
C14_VisitorKept ==
  (lsOk /\ VisitorStored /\ lastOp'.op # "clear") =>
    (VisitorStored' /\ lsGet(storage', VID_KEY) = lsGet(storage, VID_KEY))
C14_VisitorIdIdempotent ==
  /\ [][C14_VisitorCall]_vars
  /\ [][C14_VisitorKept]_vars

\* C14 witness: some time after the id was stored, and after other ids were
\* generated, a call returned the stored id.
C14_Witness ==
  /\ lsOk /\ lastOp.op = "getVisitorId"
  /\ VisitorStored /\ lastOp.ret = lsGet(storage, VID_KEY)
  /\ lastOp.ret < ids /\ clock > 0

\* C15: touchSession generates no id; with no stored session it leaves the
\* store as it is; with one it changes `last` to now and nothing else, of the
\* session or of any other entry.
C15_TouchOnlyMovesLast ==
  [][IdentityStep("touchSession") =>
       /\ ids' = ids
       /\ IF SessionStored
            THEN /\ OtherEntriesKept(SID_KEY)
                 /\ lsGet(storage', SID_KEY)
                      = [lsGet(storage, SID_KEY) EXCEPT !.last = clock]
            ELSE storage' = storage]_vars

\* C15 witness: a session that started earlier has just been touched.
C15_Witness ==
  /\ lastOp.op = "touchSession" /\ SessionStored
  /\ lsGet(storage, SID_KEY).last = clock
  /\ lsGet(storage, SID_KEY).started < clock

\* C16: an enqueue call made while the gate allows never throws: whatever
\* reading the page context does, the call returns normally and its record
\* has been appended to the queue (or sent with it).
C16_EnqueueNeverThrows ==
  [][(EnqueueStep /\ GateFormula)
       => (lastOp'.how # "threw" /\ EnqueueAccepted)]_vars

Getters == {"getVisitorId", "getSessionId"}

\* C17: with the store unavailable nothing is ever stored, and every
\* getVisitorId and getSessionId call returns normally with an id generated
\* by that call, different from every id returned before.
C17_NothingStored ==
  ~lsOk => /\ storage = <<>>
           /\ lastOp.op \in Getters => (lastOp.ret = ids /\ lastOp.ret # 0)
C17_GetterCall ==
  (~lsOk /\ lastOp'.op \in Getters /\ clock' = clock) =>
    (ids' = ids + 1 /\ lastOp'.ret = uuid(ids))
C17_FreshIdsWithoutStore ==
  /\ []C17_NothingStored
  /\ [][C17_GetterCall]_vars

\* C17 witness: the store is unavailable and getSessionId has returned the
\* third id generated on the page.
C17_Witness ==
  /\ ~lsOk /\ lastOp.op = "getSessionId"
  /\ lastOp.ret = MaxIds /\ storage = <<>>

\* C19: the gate decides with the do-not-track signal as it is at the call:
\* an enqueue or flush that runs while the signal is on is refused, and an
\* enqueue that runs while the signal is off and the other inputs allow is
\* accepted (lastOp names the last handler, and a change of the signal is one).
C19_GateReadsSignalAfresh ==
  /\ (lastOp.op = "enqueue" /\ DoNotTrackInput) => lastOp.how = "denied"
  /\ (lastOp.op = "flush" /\ DoNotTrackInput) => lastOp.how = "skipped"
  /\ (lastOp.op = "enqueue" /\ GateFormula) => lastOp.how # "denied"

\* The records a copy holds or has sent, and those of the whole page.
RecordsOf(m) == m.state.queue \o Flatten(m.inflight) \o m.delivered
PageRecords == RecordsOf(Machine) \o RecordsOf(peers[2]) \o RecordsOf(peers[3])
CountOfType(q, t) == Cardinality({i \in 1..Len(q) : q[i].t = t})

\* C18: whatever entry point recorded it, the payload of every record is an
\* object: a payload that is not an object was replaced by {} and the call
\* was not refused.
C18_NonObjectPayloadCoerced ==
  /\ \A i \in 1..Len(PageRecords) : PageRecords[i].payload \in ObjectPayloads
  /\ (lastOp.op \in {"CC.embed.track", "CC_EMBED.track"} /\ GateFormula)
       => lastOp.how # "denied"

\* C20: the page has one queue and one flushing flag: no record is ever in
\* another queue or transmission than those of `state`, no other flag is
\* ever raised, and the initial pageview is one record.
C20_OneQueuePerPage ==
  /\ \A c \in Peers : peers[c] = EmptyMachine
  /\ (lastOp.op = "init" /\ GateFormula)
       => CountOfType(PageRecords, "pageview") = 1

\* C21: nothing caps the queue. While a POST is pending every accepted
\* enqueue makes the queue one longer, whatever its length; a batch that
\* failed with a network error comes back whole, whatever the length of the
\* queue it joins; and nothing but a flush that takes the whole queue ever
\* shortens it. (That a queue longer than maxBatch is reached is the witness.)
C21_EnqueueGrows ==
  (EnqueueAccepted /\ state.flushing) => Len(state'.queue) = Len(state.queue) + 1
C21_RequeueGrows ==
  Settled("neterr") => Len(state'.queue) = Len(state.queue) + lastOp'.ret
C21_OnlyFlushShortens ==
  Len(state'.queue) < Len(state.queue) =>
    (Len(state'.queue) = 0 /\ lastOp'.how \in {"beacon", "post"})
C21_QueueUnbounded ==
  /\ [][C21_EnqueueGrows]_vars
  /\ [][C21_RequeueGrows]_vars
  /\ [][C21_OnlyFlushShortens]_vars

\* C21 witness: every delivery failed and the queue holds more than maxBatch
\* records, all that were ever enqueued.
C21_Witness ==
  /\ Len(queue) > maxBatch /\ Len(queue) = enqCount
  /\ delivered = <<>> /\ inflight = <<>>

\* A step in which a flush (direct or inside enqueue) passed its guard.
FlushPassed == lastOp' # lastOp /\ lastOp'.how \in {"beacon", "post"}
\* The batch such a step handed to the transport.
BatchTaken ==
  IF Len(inflight') > Len(inflight)
    THEN inflight'[Len(inflight')]
    ELSE SubSeq(delivered', Len(delivered) + 1, Len(delivered'))
\* C22: a flush that passes its guard takes exactly the records queued at that
\* instant, in order, and leaves the queue empty; while its POST is pending
\* the batch does not change, a record enqueued then is appended to the queue
\* and is not in the batch, and a queued record leaves the queue only in the
\* batch of a later flush.
C22_FlushTakesSnapshot ==
  FlushPassed =>
    /\ state'.queue = <<>>
    /\ IF EnqueueAccepted
         THEN /\ Len(BatchTaken) = Len(state.queue) + 1
              /\ SubSeq(BatchTaken, 1, Len(state.queue)) = state.queue
              /\ BatchTaken[Len(BatchTaken)].n = enqCount'
         ELSE BatchTaken = state.queue
C22_PendingBatchFixed ==
  (EnqueueAccepted /\ inflight # <<>>) =>
    /\ inflight' = inflight
    /\ Len(state'.queue) = Len(state.queue) + 1
    /\ SubSeq(state'.queue, 1, Len(state.queue)) = state.queue
    /\ state'.queue[Len(state'.queue)].n = enqCount'
    /\ \A i \in 1..Len(Flatten(inflight')) : Flatten(inflight')[i].n # enqCount'
C22_QueuedUntilTaken ==
  \A i \in 1..Len(state.queue) :
    \/ \E j \in 1..Len(state'.queue) : state'.queue[j] = state.queue[i]
    \/ FlushPassed /\ \E j \in 1..Len(BatchTaken) : BatchTaken[j] = state.queue[i]
C22_FlushSnapshot ==
  /\ [][C22_FlushTakesSnapshot]_vars
  /\ [][C22_PendingBatchFixed]_vars
  /\ [][C22_QueuedUntilTaken]_vars

\* C22 witness: a record enqueued while the first batch was pending has been
\* taken by a later flush, after the first batch was delivered.
C22_Witness ==
  /\ lastOp.op = "flush" /\ lastOp.how = "post"
  /\ Len(inflight) = 1 /\ Len(delivered) >= 1
  /\ \A i \in 1..Len(inflight[1]) : inflight[1][i].n > delivered[Len(delivered)].n
  /\ queue = <<>>

\* C24: in every state where flush passes its guard, a beacon that accepts
\* the batch ends the flush at once (the queue is empty, the batch counts as
\* delivered, no POST was added and flushing is FALSE at the return), while
\* a beacon that is missing, returns false or throws leads to exactly one
\* fallback POST carrying the batch, with flushing TRUE at the return; and no
\* record that was handed over is ever back in the queue.
C24_FlushOutcome(beacon) ==
  LET r == flush(Machine, beacon)
  IN IF beacon = "accepted"
       THEN /\ r.how = "beacon"
            /\ r.m.inflight = inflight
            /\ r.m.delivered = delivered \o queue
            /\ r.m.state = [queue |-> <<>>, flushing |-> FALSE]
       ELSE /\ r.how = "post"
            /\ r.m.inflight = Append(inflight, queue)
            /\ r.m.delivered = delivered
            /\ r.m.state = [queue |-> <<>>, flushing |-> TRUE]
C24_BeaconAcceptedIsFinal ==
  /\ ~flushSkips(Machine) => \A beacon \in BeaconOutcomes : C24_FlushOutcome(beacon)
  /\ \A i \in 1..Len(delivered), j \in 1..Len(queue) : delivered[i].n # queue[j].n
  /\ lastOp.how = "beacon" => ~state.flushing
  /\ lastOp.how = "post" => (state.flushing /\ Len(inflight) = 1)

\* C24 witness: two batches went out by beacon, nothing was ever posted or
\* requeued, and the flag is down.
C24_Witness ==
  /\ lastOp.op = "flush" /\ lastOp.how = "beacon"
  /\ ~state.flushing /\ inflight = <<>> /\ queue = <<>>
  /\ Len(delivered) = enqCount /\ enqCount > maxBatch

\* C25: with a working store, after a getSessionId call at time t the stored
\* session has last = t and the id the call returned; a call that created a
\* session (none stored, or the stored one expired) stored started = t and a
\* newly generated id, any other call left id and started as they were.
C25_SessionPersisted ==
  [][(lsOk /\ IdentityStep("getSessionId")) =>
       LET s == lsGet(storage', SID_KEY)
           created == \/ ~SessionStored
                      \/ clock - lsGet(storage, SID_KEY).last > sessionTimeoutMs
       IN /\ SessionStored'
          /\ s.last = clock
          /\ s.id = lastOp'.ret
          /\ OtherEntriesKept(SID_KEY)
          /\ IF created
               THEN s.started = clock /\ s.id = ids' /\ ids' = ids + 1
               ELSE /\ s.started = lsGet(storage, SID_KEY).started
                    /\ s.id = lsGet(storage, SID_KEY).id
                    /\ ids' = ids]_vars

\* C25 witness: a call some time after the session started found it alive
\* and moved last, not started.
C25_Witness ==
  /\ lsOk /\ lastOp.op = "getSessionId" /\ SessionStored
  /\ lsGet(storage, SID_KEY).id = lastOp.ret
  /\ lsGet(storage, SID_KEY).last = clock
  /\ lsGet(storage, SID_KEY).started < clock

\* A step in which flush was called directly.
FlushStep == lastOp'.op = "flush" /\ lastOp' # lastOp
\* A step in which a batch was handed to the beacon or to a fallback POST.
TransmissionStarts ==
  \/ Len(inflight') > Len(inflight)
  \/ (Len(delivered') > Len(delivered) /\ lastOp'.how = "beacon")

\* C23: a flush call made while the gate denies, or while flushing is TRUE,
\* or with an empty queue changes neither queue nor flag and hands nothing to
\* the beacon or to a POST; so every transmission starts in a state in which
\* the gate allows.
C23_SkippedFlush ==
  (FlushStep /\ (~GateFormula \/ state.flushing \/ Len(state.queue) = 0)) =>
    /\ UNCHANGED <<state, inflight, delivered, storage, ids>>
    /\ lastOp'.how = "skipped"
C23_TransmissionUnderGate ==
  TransmissionStarts => (GateFormula /\ ~state.flushing)
C23_FlushGuard ==
  /\ [][C23_SkippedFlush]_vars
  /\ [][C23_TransmissionUnderGate]_vars

\* C23 witness: consent was withdrawn from the store while two records were
\* queued, and a flush has run: the records are still queued, nothing is
\* pending.
C23_Witness ==
  /\ lastOp.op = "flush" /\ lastOp.how = "skipped"
  /\ ~GateFormula /\ ~state.flushing
  /\ Len(queue) = 2 /\ inflight = <<>> /\ delivered = <<>>

\* The session id the expiry rule yields for a call at the current time: the
\* stored id while the stored session is at most sessionTimeoutMs old, a new
\* id otherwise.
SidAfterExpiryRule ==
  IF SessionStored /\ lsGet(storage, SID_KEY).id # 0
                   /\ clock - lsGet(storage, SID_KEY).last <= sessionTimeoutMs
    THEN lsGet(storage, SID_KEY).id
    ELSE ids + 1

\* C30: the record an enqueue builds carries the session id the expiry rule
\* yields at call time (a new one, different from the stored one, when the
\* last session activity is more than sessionTimeoutMs ago); every record that
\* exists before and after a step, queued, pending or transmitted, requeued or
\* not, keeps the id it was created with.
C30_NewRecordStamped ==
  EnqueueAccepted =>
    LET after == RecordsOf(Machine)'
    IN \A i \in 1..Len(after) :
         after[i].n = enqCount' =>
           /\ after[i].sid = SidAfterExpiryRule
           /\ (SessionStored /\ clock - lsGet(storage, SID_KEY).last > sessionTimeoutMs)
                => /\ after[i].sid # lsGet(storage, SID_KEY).id
                   /\ lsGet(storage', SID_KEY).id = after[i].sid
C30_OldRecordsKeepSid ==
  LET before == RecordsOf(Machine)
      after == RecordsOf(Machine)'
  IN \A i \in 1..Len(before) : \A j \in 1..Len(after) :
       before[i].n = after[j].n => before[i].sid = after[j].sid
C30_RequeueKeepsAll ==
  Settled("neterr") =>
    LET before == RecordsOf(Machine)
        after == RecordsOf(Machine)'
    IN \A i \in 1..Len(before) : \E j \in 1..Len(after) : before[i] = after[j]
C30_SessionStamp ==
  /\ [][C30_NewRecordStamped]_vars
  /\ [][C30_OldRecordsKeepSid]_vars
  /\ [][C30_RequeueKeepsAll]_vars

\* C30 witness: a record was sent by POST, the session expired, a second
\* record was enqueued under the new session, the POST failed: the requeued
\* record stands before the new one with the old id, and the store holds the
\* new id.
C30_Witness ==
  /\ lastOp.op = "settle" /\ lastOp.how = "neterr"
  /\ Len(queue) = 2 /\ queue[1].n < queue[2].n
  /\ queue[1].sid # queue[2].sid
  /\ SessionStored /\ lsGet(storage, SID_KEY).id = queue[2].sid

\* A step in which onChange ran for a route change and queued its pageview.
RouteChangeQueued == lastOp'.op = "onChange" /\ EnqueueAccepted
\* The sid of the record with serial n among the records of the first copy
\* after the step (0: no such record).
SidOfNew(n) ==
  LET rs == RecordsOf(Machine)'
      at == {i \in 1..Len(rs) : rs[i].n = n}
  IN IF at = {} THEN 0 ELSE rs[CHOOSE i \in at : TRUE].sid

\* C26: a route change made when the stored session is already expired
\* (now - last > sessionTimeoutMs) stamps its pageview with a new session id,
\* not with the expired one.
C26_RouteChangeRotatesExpired ==
  [][(RouteChangeQueued /\ SessionStored
        /\ clock - lsGet(storage, SID_KEY).last > sessionTimeoutMs)
       => /\ SidOfNew(enqCount') # lsGet(storage, SID_KEY).id
          /\ SidOfNew(enqCount') = ids + 1]_vars

\* A step in which the oldest scheduled flush fired.
TimerStep == lastOp'.op = "timeout" /\ Len(timers') + 1 = Len(timers)
\* Every record that leaves the queue in a step is in a batch handed to the
\* beacon or to a POST in that step.
LeavesQueueToTransport ==
  (Serials(state.queue) \ Serials(state'.queue))
     \subseteq (Serials(Flatten(inflight')) \cup Serials(delivered'))
\* A route change with the gate allowing queues its pageview and sets the
\* timer in the same step, the timer behind those already pending.
C27_QueuedThenScheduled ==
  /\ (lastOp'.op = "onChange" /\ lastOp' # lastOp /\ GateFormula)
       => RouteChangeQueued
  /\ RouteChangeQueued =>
       /\ timers' = Append(timers, enqCount')
       /\ \E i \in 1..Len(RecordsOf(Machine)') :
            /\ RecordsOf(Machine)'[i].n = enqCount'
            /\ RecordsOf(Machine)'[i].t = "pageview"
\* The pageview of a firing timer was queued before; it is not queued twice.
C27_FiresAfterEnqueue ==
  (TimerStep /\ Head(timers) > 0) =>
    /\ Head(timers) <= enqCount
    /\ enqCount' = enqCount

\* C27 as stated: ... and when the scheduled flush fires with the pageview
\* still in the queue, the pageview goes into the batch.
C27_PageviewGoesIntoBatch ==
  /\ [][C27_QueuedThenScheduled]_vars
  /\ [][C27_FiresAfterEnqueue]_vars
  /\ [][LeavesQueueToTransport]_vars
  /\ [][(TimerStep /\ Head(timers) \in Serials(state.queue))
          => /\ Head(timers) \notin Serials(state'.queue)
             /\ Head(timers) \in Serials(BatchTaken)]_vars

\* C27 (amended): on every route change with the gate allowing, the pageview
\* is queued and the flush scheduled in the same step; when the scheduled
\* flush fires the pageview was queued before, and it is either still in the
\* queue or was handed to the transport when it left the queue; if it is
\* still in the queue it goes into the batch, unless the flush returns at
\* its guard (a fallback POST is pending or the gate denies), and then the
\* queue stays as it is.
C27_ScheduledFlushAfterPageview ==
  /\ [][C27_QueuedThenScheduled]_vars
  /\ [][C27_FiresAfterEnqueue]_vars
  /\ [][LeavesQueueToTransport]_vars
  /\ [][(TimerStep /\ Head(timers) \in Serials(state.queue))
          => IF state.flushing \/ ~GateFormula
               THEN UNCHANGED <<state, inflight, delivered>>
               ELSE /\ state'.queue = <<>>
                    /\ BatchTaken = state.queue]_vars

\* C27 witness: a scheduled flush has fired and handed the pageview of its
\* route change to the beacon.
C27_Witness ==
  /\ lastOp.op = "timeout" /\ lastOp.how = "beacon"
  /\ lastOp.ret > 0
  /\ lastOp.ret \in Serials(delivered)
  /\ queue = <<>>

\* A step in which the beforeunload listener ran.
UnloadStep == lastOp'.op = "beforeunload" /\ lastOp' # lastOp

\* C28 as stated: at beforeunload with tracking allowed, from every reachable
\* state, every record in the queue is handed to the beacon or to a POST.
C28_UnloadFlushesAll ==
  [][(UnloadStep /\ GateFormula) =>
       /\ state'.queue = <<>>
       /\ Serials(state.queue) \subseteq
            (Serials(Flatten(inflight')) \cup Serials(delivered'))]_vars

\* C28 (amended): at beforeunload with tracking allowed and no flush in
\* progress, every record in the queue is handed to the beacon or to a POST
\* in that step, as one batch in queue order; with a flush in progress the
\* listener changes nothing.
C28_UnloadFlushesUnlessPending ==
  [][(UnloadStep /\ GateFormula) =>
       IF state.flushing
         THEN UNCHANGED <<state, inflight, delivered>>
         ELSE /\ state'.queue = <<>>
              /\ Len(state.queue) > 0 => BatchTaken = state.queue
              /\ Len(state.queue) = 0 => UNCHANGED <<inflight, delivered>>]_vars

\* C28 witness: the unload flush has handed two queued records to the beacon.
C28_Witness ==
  /\ lastOp.op = "beforeunload" /\ lastOp.how = "beacon"
  /\ queue = <<>> /\ inflight = <<>>
  /\ Len(delivered) = 2 /\ enqCount = 2

\* A step in which the page's visibility changed and the listener ran.
VisibilityStep == lastOp'.op = "visibilitychange" /\ D' # D
\* A step in which the heartbeat timer ticked.
HeartbeatStep == lastOp'.op = "heartbeat" /\ lastOp' # lastOp
\* The heartbeat records among the records of the first copy.
Heartbeats(rs) == {i \in 1..Len(rs) : rs[i].t = "hb"}

\* C29: a visibility change calls flush exactly when the new state is
\* hidden (the flush then acts as any flush: skipped at its guard, or the
\* whole queue handed over); a change to visible leaves queue, flag and
\* transmissions alone.  A heartbeat record is added only by a timer tick
\* at which the page is visible, and a tick on a hidden page changes nothing.
C29_HiddenFlushes ==
  (VisibilityStep /\ D'.visibilityState = "hidden") =>
    IF ~GateFormula \/ state.flushing \/ Len(state.queue) = 0
      THEN lastOp'.how = "skipped" /\ UNCHANGED <<state, inflight, delivered>>
      ELSE /\ lastOp'.how \in {"beacon", "post"}
           /\ state'.queue = <<>>
           /\ BatchTaken = state.queue
C29_VisibleDoesNotFlush ==
  (VisibilityStep /\ D'.visibilityState = "visible") =>
    lastOp'.how = "none" /\ UNCHANGED <<state, inflight, delivered>>
C29_HeartbeatOnlyVisible ==
  /\ (Cardinality(Heartbeats(RecordsOf(Machine)')) >
        Cardinality(Heartbeats(RecordsOf(Machine))) /\ ~Settled("neterr"))
       => /\ D.visibilityState = "visible" /\ D' = D
          /\ lastOp'.op = "heartbeat"
          /\ EnqueueAccepted
  /\ (HeartbeatStep /\ D.visibilityState = "hidden")
       => UNCHANGED <<state, inflight, delivered, storage, ids, enqCount>>
  /\ (HeartbeatStep /\ D.visibilityState = "visible" /\ GateFormula)
       => EnqueueAccepted
C29_VisibilityAware ==
  /\ [][C29_HiddenFlushes]_vars
  /\ [][C29_VisibleDoesNotFlush]_vars
  /\ [][C29_HeartbeatOnlyVisible]_vars
  /\ [](\A i \in Heartbeats(RecordsOf(Machine)) :
         RecordsOf(Machine)[i].payload = "{vis:visible}")

\* C29 witness: heartbeats were queued while the page was visible, the page
\* became hidden and the listener's flush handed them to the beacon; a tick
\* on the hidden page then added nothing.
C29_Witness ==
  /\ D.visibilityState = "hidden"
  /\ lastOp.op = "heartbeat" /\ lastOp.how = "none"
  /\ queue = <<>> /\ inflight = <<>>
  /\ Len(delivered) = 2 /\ Heartbeats(delivered) = {1, 2}

\* The identity the store holds: the visitor id, the session and the
\* referrer trail, as far as they are stored.
IdentityEntries ==
  [k \in {VID_KEY, SID_KEY, REF_KEY} \cap DOMAIN storage |-> storage[k]]

\* C31: while the gate denies, no operation creates or persists visitor or
\* session identity or the referrer trail: across every step that starts and
\* ends with the gate denying, the cc_vid, cc_sid and cc_ref entries stay as
\* they were and no new id is generated (so none can be put in a request).
C31_NoIdentityWhileDenied ==
  [][(~GateFormula /\ ~GateFormula') =>
       /\ IdentityEntries' = IdentityEntries
       /\ ids' = ids]_vars

\* C32 as stated: no batch handed to the beacon or to a POST holds more
\* than maxBatch records.
C32_BatchAtMostMaxBatch ==
  [][FlushPassed => Len(BatchTaken) <= maxBatch]_vars

\* C32 (amended): a batch is the whole queue at the moment of the flush
\* (with the record the flushing enqueue has just pushed) and is never
\* empty; it holds at most maxBatch records when the queue held fewer than
\* maxBatch records before the call.
C32_BatchIsWholeQueue ==
  [][FlushPassed =>
       /\ Len(BatchTaken) >= 1
       /\ state'.queue = <<>>
       /\ Len(BatchTaken) = Len(state.queue) + (IF EnqueueAccepted THEN 1 ELSE 0)
       /\ SubSeq(BatchTaken, 1, Len(state.queue)) = state.queue
       /\ (Len(state.queue) < maxBatch => Len(BatchTaken) <= maxBatch)]_vars

\* C32 witness: a batch of maxBatch records failed and went back in front
\* of a record enqueued meanwhile; the next flush has put all of them, more
\* than maxBatch, into one POST.
C32_Witness ==
  /\ lastOp.how = "post"
  /\ Len(inflight) = 1 /\ Len(inflight[1]) > maxBatch
  /\ queue = <<>>

\* The serials of the records of the first copy that are queued, pending
\* in a POST, or handed over successfully.
HandedOver == Serials(delivered)
Pending == Serials(Flatten(inflight))
Queued == Serials(state.queue)

\* C33 as stated: every record that was ever enqueued is in exactly one
\* place, the queue, the pending batch, or handed over successfully; the
\* queue holds no record twice and shares none with the pending batch.
C33_EachRecordInOnePlace ==
  /\ NoDuplicates(state.queue \o Flatten(inflight) \o delivered)
  /\ (Queued \cup Pending \cup HandedOver) = 1..enqCount

\* C34: in every state between handlers, flushing is TRUE exactly when a
\* fallback POST issued by flush is pending; it is FALSE when the script
\* has just been loaded and after every flush whose beacon was accepted.
C34_FlagIffPostPending ==
  /\ [](state.flushing <=> Len(inflight) = 1)
  /\ [](lastOp.op = "load" => ~state.flushing)
  /\ [][FlushTook("beacon") => (~state'.flushing /\ inflight' = <<>>)]_vars

\* A step in which flush passed its guard and then ended in an exception.
AbortStep == lastOp'.how = "threw" /\ Len(state'.queue) < Len(state.queue)

\* C36: when flush aborts after it has taken the batch, the batch is not
\* lost (each of its records is queued again, pending or handed over), the
\* flag is FALSE afterwards, and the exception does not reach the caller.
C36_AbortKeepsBatchAndFlag ==
  [][AbortStep =>
       /\ Serials(state.queue) \subseteq
            (Serials(state'.queue) \cup Serials(Flatten(inflight')) \cup Serials(delivered'))
       /\ ~state'.flushing
       /\ lastOp'.ret = 0]_vars

\* C35: with tracking allowed, the flush timer firing, pending POSTs
\* settling and deliveries not failing for ever, every record that is
\* queued is eventually handed over successfully.
C35_EveryRecordDelivered ==
  \A n \in 1..MaxEnq : (n \in Queued) ~> (n \in HandedOver)

\* C37: under a clock that does not go back, every stored session has
\* started <= last; across every getSessionId or touchSession call `last`
\* does not decrease, and `started` changes only when the id changes.
C37_StartedBeforeLast ==
  SessionStored => lsGet(storage, SID_KEY).started <= lsGet(storage, SID_KEY).last
C37_LastMonotone ==
  (SessionStored /\ SessionStored') =>
    /\ lsGet(storage', SID_KEY).last >= lsGet(storage, SID_KEY).last
    /\ (lsGet(storage', SID_KEY).started # lsGet(storage, SID_KEY).started
          => lsGet(storage', SID_KEY).id # lsGet(storage, SID_KEY).id)
C37_SessionTimesOrdered ==
  /\ []C37_StartedBeforeLast
  /\ [][C37_LastMonotone]_vars

\* C37 witness: a session that was started earlier has been touched at a
\* later time: started < last, same id.
C37_Witness ==
  /\ lastOp.op = "touchSession"
  /\ SessionStored
  /\ lsGet(storage, SID_KEY).started < lsGet(storage, SID_KEY).last
  /\ lsGet(storage, SID_KEY).last = clock

====
